---- MODULE Spec2Model ----
(***************************************************************************)
(* Model of generate_config.py, the webMUSHRA configuration generator.     *)
(*                                                                         *)
(* The parameter table (TRIALS, CODECS, BITRATE_CONDITIONS, TRAINING_TRIAL)*)
(* is a set of module-level Python lists that the experimenter edits; the  *)
(* model draws it from small pools.  main() is modelled step by step: the  *)
(* loop over the bitrate conditions, the construction of the page list in  *)
(* generate_config (its loop over TRIALS one trial a step), and the write  *)
(* in save_config, which may raise OSError.  Python dicts are ordered      *)
(* maps: a sequence of <<key, value>> pairs in which a store to an         *)
(* existing key replaces the value in place.  Strings are TLA+ strings,    *)
(* built by concatenation as the f-strings build them.                     *)
(***************************************************************************)
EXTENDS Integers, Sequences, FiniteSets, TLC

VARIABLES
    TRIALS,              \* module global: list of Trial
    CODECS,              \* module global: list of Codec
    BITRATE_CONDITIONS,  \* module global: list of BitrateCondition
    TRAINING_TRIAL,      \* module global: the practice Trial
    pc,                  \* position of main()
    i,                   \* main: number of bitrate conditions taken by the for loop
    bitrate,             \* main / generate_config: the current BitrateCondition
    filename,            \* main: name of the file of the current condition
    num_trials,          \* generate_config: len(TRIALS)
    pages,               \* generate_config: the list of pages under construction
    t,                   \* generate_config: number of TRIALS the for loop has taken
    config,              \* main: the dict returned by generate_config
    test_files,          \* main: list of (filename, bitrate)
    disk,                \* the files of the working directory: name -> content
    returned,            \* the (bitrate, config) pairs generate_config has returned
    opened               \* log of the file names save_config has opened for writing

vars == <<TRIALS, CODECS, BITRATE_CONDITIONS, TRAINING_TRIAL, pc, i, bitrate,
          filename, num_trials, pages, t, config, test_files, disk, returned,
          opened>>

table == <<TRIALS, CODECS, BITRATE_CONDITIONS, TRAINING_TRIAL>>

-----------------------------------------------------------------------------
(* Bounds of the model: the longest lists the parameter table may hold.    *)

MaxTrials == 2

MaxCodecs == 2

MaxVariants == 2

-----------------------------------------------------------------------------
(* Program constants.                                                      *)

EXPERIMENT_NAME == "Audio Codec Evaluation"

AUDIO_BASE_PATH == "configs/resources/audio"

REFERENCE_FILENAME == "reference.wav"

ANCHOR_FILENAME == "anchor_3.5khz_lp.wav"

HIDDEN_REF_LABEL == "hidden_ref"

ANCHOR_LABEL == "anchor"

SHOW_WAVEFORM == TRUE

ENABLE_LOOPING == TRUE

BUFFER_SIZE == 2048

None == "None"

-----------------------------------------------------------------------------
(* The records of the parameter table and the pools the table is drawn     *)
(* from.  The pools hold the declared entries and the entries an edit of   *)
(* the settings can produce: a codec declared twice under one display      *)
(* name, a codec named like a reserved label, two conditions with one      *)
(* test_id.                                                                *)

BitrateCondition(name, suffix, test_id) ==
    [name |-> name, suffix |-> suffix, test_id |-> test_id]

Codec(name, file_prefix) == [name |-> name, file_prefix |-> file_prefix]

Trial(id, directory, category, description) ==
    [id |-> id, directory |-> directory, category |-> category,
     description |-> description]

VariantPool ==
    { BitrateCondition("Test A", "4.3kbps", "mushra_test_a"),
      BitrateCondition("Test B", "7.7kbps", "mushra_test_b"),
      BitrateCondition("Test A2", "7.7kbps", "mushra_test_a") }

CodecPool ==
    { Codec("HARP", "harp"),
      Codec("HARP", "harp_v2"),
      Codec(HIDDEN_REF_LABEL, "bscodec") }

TrialPool ==
    { Trial("trial01", "trial01_music_classical", "Music", "Classical (Orchestra)"),
      Trial("trial02", "trial02_music_jazz", "Music", "Jazz (Vocal Trio)") }

TrainingTrial == Trial("training", "training", "Practice", "Training Item")

SeqsUpTo(S, n) == UNION { [1..k -> S] : k \in 0..n }

-----------------------------------------------------------------------------
(* Python dict: an insertion-ordered map.                                  *)

EmptyDict == << >>

Keys(d) == { d[j][1] : j \in 1..Len(d) }

HasKey(d, k) == \E j \in 1..Len(d) : d[j][1] = k

Get(d, k) == d[CHOOSE j \in 1..Len(d) : d[j][1] = k][2]

\* d[k] = v
DictSet(d, k, v) ==
    IF HasKey(d, k)
    THEN [j \in 1..Len(d) |-> IF d[j][1] = k THEN <<k, v>> ELSE d[j]]
    ELSE Append(d, <<k, v>>)

-----------------------------------------------------------------------------
(* Path construction.                                                      *)

get_audio_path(trial_dir, fname) ==
    AUDIO_BASE_PATH \o "/" \o trial_dir \o "/" \o fname

\* a slip: the condition's display name in place of its filename suffix
get_codec_filename_ByName(codec, b) ==
    codec.file_prefix \o "_" \o b.name \o ".wav"

get_codec_filename(codec, b) ==
    codec.file_prefix \o "_" \o b.suffix \o ".wav"

\* the for loop of generate_stimuli, from the k-th codec on
RECURSIVE StimuliLoop(_, _, _, _, _)
StimuliLoop(codecs, stimuli, k, trial, b) ==
    IF k > Len(codecs) THEN stimuli
    ELSE StimuliLoop(codecs,
                     DictSet(stimuli, codecs[k].name,
                             get_audio_path(trial.directory,
                                            get_codec_filename(codecs[k], b))),
                     k + 1, trial, b)

generate_stimuli(trial, b) ==
    LET s1 == DictSet(EmptyDict, HIDDEN_REF_LABEL,
                      get_audio_path(trial.directory, REFERENCE_FILENAME))
        s2 == DictSet(s1, ANCHOR_LABEL,
                      get_audio_path(trial.directory, ANCHOR_FILENAME))
    IN  StimuliLoop(CODECS, s2, 1, trial, b)

-----------------------------------------------------------------------------
(* The pages.  The HTML bodies are cut to the parts that are interpolated. *)

IntroductionPage(b, n) ==
    [type |-> "generic", id |-> "introduction", name |-> "Welcome",
     content |-> "<h2>Audio Codec Listening Test - " \o b.name
                 \o "</h2> The test contains <strong>" \o ToString(n)
                 \o " trials</strong>"]

HeadphoneCheckPage ==
    [type |-> "generic", id |-> "headphone_check", name |-> "Equipment Check",
     content |-> "<h2>Before You Begin</h2>"]

TrainingPage(b) ==
    [type |-> "mushra", id |-> "training",
     name |-> "Training Trial (Practice)",
     content |-> "This is a <strong>practice trial</strong>. Your ratings will NOT be recorded.",
     showWaveform |-> SHOW_WAVEFORM,
     enableLooping |-> ENABLE_LOOPING,
     reference |-> get_audio_path(TRAINING_TRIAL.directory, REFERENCE_FILENAME),
     createAnchor35 |-> FALSE,
     createAnchor70 |-> FALSE,
     stimuli |-> generate_stimuli(TRAINING_TRIAL, b)]

TrialPage(k, trial, b, n) ==
    [type |-> "mushra", id |-> trial.id,
     name |-> "Trial " \o ToString(k) \o " of " \o ToString(n),
     content |-> "Rate the audio quality of each sample compared to the Reference.",
     showWaveform |-> SHOW_WAVEFORM,
     enableLooping |-> ENABLE_LOOPING,
     reference |-> get_audio_path(trial.directory, REFERENCE_FILENAME),
     createAnchor35 |-> FALSE,
     createAnchor70 |-> FALSE,
     stimuli |-> generate_stimuli(trial, b)]

FinishPage(b) ==
    [type |-> "finish", id |-> "finish", name |-> "Thank You",
     content |-> "<h2>" \o b.name \o " Complete</h2>",
     showResults |-> TRUE, writeResults |-> TRUE]

Config(b, ps) ==
    [testname |-> EXPERIMENT_NAME \o " - " \o b.name,
     testId |-> b.test_id,
     bufferSize |-> BUFFER_SIZE,
     stopOnErrors |-> TRUE,
     showButtonPrevious |-> TRUE,
     remoteService |-> None,
     pages |-> ps]

-----------------------------------------------------------------------------
(* Files.  yaml.dump writes the mapping in key order, page by page; a file *)
(* is the document it holds and whether the dump ran to its end.           *)

NoFiles == [f \in {} |-> None]

Dump(cfg) == [complete |-> TRUE, doc |-> cfg]

\* what open(filename, 'w') and an interrupted dump leave: some proper prefix
\* of the dump of cfg, of a length the model does not fix
Truncated(cfg) == [complete |-> FALSE, doc |-> cfg]

WriteFile(d, f, content) ==
    [g \in DOMAIN d \cup {f} |-> IF g = f THEN content ELSE d[g]]

-----------------------------------------------------------------------------
Init ==
    /\ TRIALS \in SeqsUpTo(TrialPool, MaxTrials)
    /\ CODECS \in SeqsUpTo(CodecPool, MaxCodecs)
    /\ BITRATE_CONDITIONS \in SeqsUpTo(VariantPool, MaxVariants)
    /\ TRAINING_TRIAL = TrainingTrial
    /\ pc = "main_loop"
    /\ i = 0
    /\ bitrate = None
    /\ filename = None
    /\ num_trials = 0
    /\ pages = << >>
    /\ t = 0
    /\ config = None
    /\ test_files = << >>
    /\ disk = NoFiles
    /\ returned = {}
    /\ opened = << >>

\* a slip: the file is named after the condition's display name
MainLoop_NameAsFile ==
    /\ pc = "main_loop"
    /\ i < Len(BITRATE_CONDITIONS)
    /\ i' = i + 1
    /\ bitrate' = BITRATE_CONDITIONS[i + 1]
    /\ filename' = BITRATE_CONDITIONS[i + 1].name \o ".yaml"
    /\ pc' = "generate_config"
    /\ UNCHANGED <<table, num_trials, pages, t, config, test_files, disk,
                   returned, opened>>

\* for bitrate in BITRATE_CONDITIONS: filename = f"{bitrate.test_id}.yaml"
MainLoop ==
    /\ pc = "main_loop"
    /\ i < Len(BITRATE_CONDITIONS)
    /\ i' = i + 1
    /\ bitrate' = BITRATE_CONDITIONS[i + 1]
    /\ filename' = BITRATE_CONDITIONS[i + 1].test_id \o ".yaml"
    /\ pc' = "generate_config"
    /\ UNCHANGED <<table, num_trials, pages, t, config, test_files, disk,
                   returned, opened>>

\* the loop is exhausted: main goes on to print its report
MainLoopEnd ==
    /\ pc = "main_loop"
    /\ i = Len(BITRATE_CONDITIONS)
    /\ pc' = "report"
    /\ UNCHANGED <<table, i, bitrate, filename, num_trials, pages, t, config,
                   test_files, disk, returned, opened>>

\* a slip: the trials are an iterator shared by the calls, not restarted
GenerateConfigBegin_SharedIterator ==
    /\ pc = "generate_config"
    /\ num_trials' = Len(TRIALS)
    /\ pages' = << IntroductionPage(bitrate, Len(TRIALS)),
                   HeadphoneCheckPage,
                   TrainingPage(bitrate) >>
    /\ pc' = "trials"
    /\ UNCHANGED <<table, i, bitrate, filename, t, config, test_files, disk,
                   returned, opened>>

\* num_trials = len(TRIALS); pages = []; the introduction, the equipment
\* check and the training trial are appended
GenerateConfigBegin ==
    /\ pc = "generate_config"
    /\ num_trials' = Len(TRIALS)
    /\ pages' = << IntroductionPage(bitrate, Len(TRIALS)),
                   HeadphoneCheckPage,
                   TrainingPage(bitrate) >>
    /\ t' = 0
    /\ pc' = "trials"
    /\ UNCHANGED <<table, i, bitrate, filename, config, test_files, disk,
                   returned, opened>>

\* a slip: the trials are taken from the end of the list
AppendTrial_Reversed ==
    /\ pc = "trials"
    /\ t < Len(TRIALS)
    /\ t' = t + 1
    /\ pages' = Append(pages, TrialPage(t + 1, TRIALS[Len(TRIALS) - t], bitrate,
                                        num_trials))
    /\ UNCHANGED <<table, pc, i, bitrate, filename, num_trials, config,
                   test_files, disk, returned, opened>>

\* for i, trial in enumerate(TRIALS, start=1): pages.append({...})
AppendTrial ==
    /\ pc = "trials"
    /\ t < Len(TRIALS)
    /\ t' = t + 1
    /\ pages' = Append(pages, TrialPage(t + 1, TRIALS[t + 1], bitrate, num_trials))
    /\ UNCHANGED <<table, pc, i, bitrate, filename, num_trials, config,
                   test_files, disk, returned, opened>>

\* the finish page is appended; config = {...}; return config.  The list
\* lives on in config only
GenerateConfigEnd ==
    /\ pc = "trials"
    /\ t = Len(TRIALS)
    /\ config' = Config(bitrate, Append(pages, FinishPage(bitrate)))
    /\ returned' = returned \cup
                       { [bitrate |-> bitrate,
                          config |-> Config(bitrate, Append(pages, FinishPage(bitrate)))] }
    /\ pages' = << >>
    /\ pc' = "save_config"
    /\ UNCHANGED <<table, i, bitrate, filename, num_trials, t, test_files,
                   disk, opened>>

\* save_config writes the file; main appends (filename, bitrate)
SaveConfig ==
    /\ pc = "save_config"
    /\ opened' = Append(opened, filename)
    /\ disk' = WriteFile(disk, filename, Dump(config))
    /\ test_files' = Append(test_files, <<filename, bitrate>>)
    /\ pc' = "main_loop"
    /\ UNCHANGED <<table, i, bitrate, filename, num_trials, pages, t, config,
                   returned>>

\* open(filename, 'w') raises OSError: nothing is written, main is left
SaveConfigOpenFails ==
    /\ pc = "save_config"
    /\ pc' = "aborted"
    /\ UNCHANGED <<table, i, bitrate, filename, num_trials, pages, t, config,
                   test_files, disk, returned, opened>>

\* a slip: the failed write cleans up, removing what the run has written
SaveConfigDumpFails_Rollback ==
    /\ pc = "save_config"
    /\ opened' = Append(opened, filename)
    /\ disk' = NoFiles
    /\ pc' = "aborted"
    /\ UNCHANGED <<table, i, bitrate, filename, num_trials, pages, t, config,
                   test_files, returned>>

\* the file is opened (and cut to length 0), then yaml.dump raises OSError
SaveConfigDumpFails ==
    /\ pc = "save_config"
    /\ opened' = Append(opened, filename)
    /\ disk' = WriteFile(disk, filename, Truncated(config))
    /\ pc' = "aborted"
    /\ UNCHANGED <<table, i, bitrate, filename, num_trials, pages, t, config,
                   test_files, returned>>

\* the rest of main only prints
Report ==
    /\ pc = "report"
    /\ pc' = "done"
    /\ UNCHANGED <<table, i, bitrate, filename, num_trials, pages, t, config,
                   test_files, disk, returned, opened>>

Next ==
    \/ MainLoop
    \/ MainLoopEnd
    \/ GenerateConfigBegin
    \/ AppendTrial
    \/ GenerateConfigEnd
    \/ SaveConfig
    \/ SaveConfigOpenFails
    \/ SaveConfigDumpFails
    \/ Report

Spec == Init /\ [][Next]_vars

-----------------------------------------------------------------------------
(* Vocabulary of the properties.                                           *)

\* generate_config has just returned config, the document of bitrate
Returned == pc = "save_config"

\* page 3 of a document is built from TRAINING_TRIAL, page 3 + k from TRIALS[k]
TrialPageIndices(doc) == 3..(Len(doc.pages) - 1)

TrialOfPage(k) == IF k = 3 THEN TRAINING_TRIAL ELSE TRIALS[k - 3]

FileOf(b) == b.test_id \o ".yaml"

HasDuplicateTrialIds ==
    \E a, b \in 1..Len(TRIALS) : a # b /\ TRIALS[a].id = TRIALS[b].id

NoTwoPagesShareAnId(doc) ==
    \A a, b \in 1..Len(doc.pages) : a # b => doc.pages[a].id # doc.pages[b].id

CodecNames == { CODECS[k].name : k \in 1..Len(CODECS) }

-----------------------------------------------------------------------------
\* C1: every document generate_config returns has exactly N + 4 pages, N the
\* number of TRIALS: introduction, headphone_check, training, then one page
\* per trial in the order of TRIALS, bearing the trial's id, then finish.
C1_PageOrder ==
    Returned =>
        LET ps == config.pages
            N  == Len(TRIALS)
        IN  /\ Len(ps) = N + 4
            /\ ps[1].id = "introduction" /\ ps[1].type = "generic"
            /\ ps[2].id = "headphone_check" /\ ps[2].type = "generic"
            /\ ps[3].id = "training" /\ ps[3].type = "mushra"
            /\ \A k \in 1..N : ps[3 + k].id = TRIALS[k].id
                               /\ ps[3 + k].type = "mushra"
            /\ ps[N + 4].id = "finish" /\ ps[N + 4].type = "finish"

\* a document of two different trials has been returned for the second condition
C1_Witness ==
    /\ Returned
    /\ i = 2
    /\ Len(TRIALS) = 2
    /\ TRIALS[1].id # TRIALS[2].id
    /\ Len(config.pages) = 6

\* C2: for every codec list, repeated and reserved display names included,
\* every stimulus map holds exactly 2 + |CODECS| entries and its keys are
\* hidden_ref, anchor and the codec display names.
C2_StimulusMapSize ==
    Returned =>
        \A k \in TrialPageIndices(config) :
            /\ Len(config.pages[k].stimuli) = 2 + Len(CODECS)
            /\ Keys(config.pages[k].stimuli)
                 = {HIDDEN_REF_LABEL, ANCHOR_LABEL} \cup CodecNames

\* C3: with an empty TRIALS, generate_config returns no document and
\* save_config is never reached: no file is opened or written.
C3_EmptyTrialsRejected ==
    Len(TRIALS) = 0 =>
        /\ ~ Returned
        /\ opened = << >>
        /\ disk = NoFiles

\* C4: no document in which two pages bear the same trial id is ever
\* returned by generate_config or written by save_config; with two trials of
\* one id the run returns and writes nothing.
C4_DuplicateTrialIdsRejected ==
    /\ Returned => NoTwoPagesShareAnId(config)
    /\ \A f \in DOMAIN disk : NoTwoPagesShareAnId(disk[f].doc)
    /\ HasDuplicateTrialIds => ~ Returned /\ opened = << >>

-----------------------------------------------------------------------------
\* the files of the conditions, and the last condition that bears a file name
ConditionFiles == { FileOf(BITRATE_CONDITIONS[k]) : k \in 1..Len(BITRATE_CONDITIONS) }

LastWriterOf(f) ==
    BITRATE_CONDITIONS[CHOOSE k \in 1..Len(BITRATE_CONDITIONS) :
        /\ FileOf(BITRATE_CONDITIONS[k]) = f
        /\ \A m \in (k + 1)..Len(BITRATE_CONDITIONS) : FileOf(BITRATE_CONDITIONS[m]) # f]

-----------------------------------------------------------------------------
\* the step in which the write of the current condition's document fails
WriteFails == pc = "save_config" /\ pc' = "aborted"

\* the files of the conditions before the current one
EarlierFiles == { FileOf(BITRATE_CONDITIONS[k]) : k \in 1..(i - 1) }

\* the failed write is the last step of the run: nothing is retried, built or
\* written after it
AbortIsFinal ==
    /\ pc # "aborted"
    /\ WriteFails => /\ i' = i
                     /\ returned' = returned
                     /\ test_files' = test_files
                     /\ Len(opened') <= Len(opened) + 1

-----------------------------------------------------------------------------
\* the document of a condition, as a function of the condition and the table
DocumentOf(b) ==
    Config(b, << IntroductionPage(b, Len(TRIALS)), HeadphoneCheckPage, TrainingPage(b) >>
              \o [k \in 1..Len(TRIALS) |-> TrialPage(k, TRIALS[k], b, Len(TRIALS))]
              \o << FinishPage(b) >>)

\* the step in which generate_config returns: config is the new document
Returns == pc = "trials" /\ pc' = "save_config"

\* C7: two calls of generate_config with the same condition return the same
\* document, the document of a condition depends on nothing but the condition
\* and the table, and no step of the run changes the table.
C7_DeterministicAndPure ==
    [][ /\ table' = table
        /\ Returns =>
              /\ \A r \in returned : r.bitrate = bitrate => r.config = config'
              /\ config' = DocumentOf(bitrate) ]_vars

\* generate_config has returned twice for one condition, with scored trials
C7_Witness ==
    /\ Returned
    /\ i = 2
    /\ BITRATE_CONDITIONS[1] = BITRATE_CONDITIONS[2]
    /\ Len(TRIALS) = 2
    /\ Cardinality(returned) = 1

-----------------------------------------------------------------------------
\* the last codec of CODECS declared under a display name
LastCodecNamed(n) ==
    CODECS[CHOOSE k \in 1..Len(CODECS) :
        /\ CODECS[k].name = n
        /\ \A m \in (k + 1)..Len(CODECS) : CODECS[m].name # n]

\* C8 as stated: the path under a codec's display name is
\* <directory>/<file_prefix>_<suffix>.wav, and hidden_ref and anchor hold the
\* reference and anchor file names under <directory>.
C8_PathsUnderTrialDirectory ==
    Returned =>
        \A k \in TrialPageIndices(config) :
            LET st  == config.pages[k].stimuli
                dir == TrialOfPage(k).directory
            IN  /\ \A c \in 1..Len(CODECS) :
                      Get(st, CODECS[c].name)
                        = dir \o "/" \o CODECS[c].file_prefix \o "_"
                              \o bitrate.suffix \o ".wav"
                /\ Get(st, HIDDEN_REF_LABEL) = dir \o "/" \o REFERENCE_FILENAME
                /\ Get(st, ANCHOR_LABEL) = dir \o "/" \o ANCHOR_FILENAME

\* C8, amended: every path is AUDIO_BASE_PATH/<directory>/<file>; under a
\* codec display name the file is <file_prefix>_<suffix>.wav of the last codec
\* declared under that name; hidden_ref and anchor hold the reference and
\* anchor file names unless a codec is declared under that label.
C8_PathsUnderBasePath ==
    Returned =>
        \A k \in TrialPageIndices(config) :
            LET st   == config.pages[k].stimuli
                root == AUDIO_BASE_PATH \o "/" \o TrialOfPage(k).directory \o "/"
            IN  /\ Keys(st) = {HIDDEN_REF_LABEL, ANCHOR_LABEL} \cup CodecNames
                /\ \A n \in Keys(st) :
                      Get(st, n) =
                         IF n \in CodecNames
                         THEN root \o LastCodecNamed(n).file_prefix \o "_"
                                   \o bitrate.suffix \o ".wav"
                         ELSE IF n = HIDDEN_REF_LABEL THEN root \o REFERENCE_FILENAME
                         ELSE root \o ANCHOR_FILENAME

\* a document of a scored trial and two codecs of one display name
C8_Witness ==
    /\ Returned
    /\ Len(TRIALS) >= 1
    /\ Len(CODECS) = 2
    /\ CODECS[1].name = CODECS[2].name
    /\ CODECS[1].file_prefix # CODECS[2].file_prefix
    /\ Len(config.pages[4].stimuli) = 3

-----------------------------------------------------------------------------
\* the fields of a trial page that are neither its identity, its text nor
\* its audio paths
FlagFields(page) == DOMAIN page \ {"id", "name", "content", "reference", "stimuli"}

\* C9: in every document with scored trials, the training page carries, in
\* some flag field, a value that no scored trial page carries.
C9_PracticeFlag ==
    Returned /\ Len(TRIALS) >= 1 =>
        \E f \in FlagFields(config.pages[3]) :
            \A k \in 4..(Len(config.pages) - 1) :
                \/ f \notin DOMAIN config.pages[k]
                \/ config.pages[k][f] # config.pages[3][f]

-----------------------------------------------------------------------------
\* the file names a trial directory can hold
FileNames ==
    {REFERENCE_FILENAME, ANCHOR_FILENAME}
      \cup { get_codec_filename(CODECS[c], BITRATE_CONDITIONS[k]) :
               c \in 1..Len(CODECS), k \in 1..Len(BITRATE_CONDITIONS) }

InDirectoryOf(trial, path) ==
    \E f \in FileNames : path = get_audio_path(trial.directory, f)

\* C10: on every trial page, 'reference' is the path stored under hidden_ref
\* in the page's stimulus map, and every path of the map lies in the
\* directory of the page's trial.
C10_ReferenceIsHiddenRef ==
    Returned =>
        \A k \in TrialPageIndices(config) :
            LET page == config.pages[k]
            IN  /\ page.reference = Get(page.stimuli, HIDDEN_REF_LABEL)
                /\ \A j \in 1..Len(page.stimuli) :
                      InDirectoryOf(TrialOfPage(k), page.stimuli[j][2])
====
